---- MODULE Spec2Model ----
(***************************************************************************)
(* Refacto AI: the scan-and-document pipeline.                             *)
(*                                                                         *)
(*   app/services/scanner.py     CodeScanner (walker, classifier, parsers) *)
(*   app/utils/cache.py          CacheManager (Redis store + fallback)     *)
(*   app/services/documenter.py  DocumentationGenerator (insertion)        *)
(*                                                                         *)
(* A file's text is a sequence of physical lines plus a flag telling       *)
(* whether the last line is terminated.  A line is a token: its kind `k',  *)
(* the number `ind' of leading blanks, the declared `name' (declarations)  *)
(* and the length `len' of what follows the leading blanks.                *)
(***************************************************************************)
EXTENDS Integers, Sequences, FiniteSets, TLC

(***************************************************************************)
(* Bounds of the model                                                     *)
(***************************************************************************)
\* longest generated source text, in lines
MaxLines == 3
\* number of scans of the repository in one behaviour
MaxScans == 2
\* number of content edits of repository files in one behaviour
MaxEdits == 1
\* number of clock advances in one behaviour
MaxTicks == 2

(***************************************************************************)
(* Program constants                                                       *)
(***************************************************************************)
\* scanner.py:156  len(docstring.strip()) > 10
DocMinLen == 10
\* scanner.py:74   cache.set(cache_key, analysis, ttl=86400)
AnalysisTtl == 86400
\* seconds added by one advance of the clock (half a TTL)
TickSeconds == AnalysisTtl \div 2

(***************************************************************************)
(* Values                                                                  *)
(***************************************************************************)
None == [none |-> TRUE]
IsNone(v) == DOMAIN v = {"none"}
Raised(e) == [exc |-> e]
IsExc(v) == DOMAIN v = {"exc"}
\* the element of a one-element set: The({F(x) : x \in {e}}) is F(e) with e
\* evaluated once
The(S) == CHOOSE v \in S : TRUE

Line(k, ind, name, len) == [k |-> k, ind |-> ind, name |-> name, len |-> len]
\* Python:  def name(...):   /  class name:  /  a simple statement
PyDef(ind, name) == Line("def", ind, name, 9)
PyClass(ind, name) == Line("class", ind, name, 8)
Stmt(ind) == Line("stmt", ind, "", 12)
Blank(ind) == Line("blank", ind, "", 0)
\* """text"""  on one line
Ds1(ind, len) == Line("ds1", ind, "", len)
\* """text     (opens a triple-quoted string that the line does not close)
DsOpen(ind, len) == Line("dsopen", ind, "", len)
\* a line of text inside a triple-quoted string or a block comment's prose
DsMid(len) == Line("dsmid", 0, "", len)
\* """         (alone on its line)
DsClose(ind) == Line("dsclose", ind, "", 3)
\* JS/TS:  [export ][async ]function name(...)  at the start of the line
JsDecl(ind, name) == Line("decl", ind, name, 16)
\* /** text */ on one line
JsDoc1(ind) == Line("jsdoc1", ind, "", 10)
\* /**   alone on its line
JsOpen(ind) == Line("jsopen", ind, "", 3)
\*  * text
JsMid(ind, len) == Line("jsmid", ind, "", len + 3)
\*  */
JsClose(ind) == Line("jsclose", ind, "", 3)

Text(lines, nl) == [lines |-> lines, nl |-> nl]

\* str.splitlines(): the lines without their terminators
splitlines(text) == text.lines
\* '\n'.join(lines): no terminator after the last line
join(lines) == Text(lines, FALSE)

(***************************************************************************)
(* scanner.py: _parse_python.  ast.parse is modelled on the line tokens:   *)
(* logical statements, the indentation stack, triple-quoted strings.       *)
(***************************************************************************)
RECURSIVE PopTo(_, _)
PopTo(stack, ind) ==
  IF Len(stack) > 1 /\ stack[Len(stack)] > ind
  THEN PopTo(SubSeq(stack, 1, Len(stack) - 1), ind)
  ELSE stack

PyState0 ==
  [stack |-> <<0>>, hdr |-> FALSE, inStr |-> FALSE, stmts |-> <<>>, err |-> FALSE]

\* a logical statement starts on physical line i
PyPlace(st, l, i, kind) ==
  LET top == st.stack[Len(st.stack)]
      stack2 == IF st.hdr THEN Append(st.stack, l.ind) ELSE PopTo(st.stack, l.ind)
      bad == IF st.hdr THEN l.ind <= top
             ELSE l.ind > top \/ stack2[Len(stack2)] # l.ind
  IN IF bad THEN [st EXCEPT !.err = TRUE]
     ELSE [st EXCEPT !.stack = stack2,
                     !.hdr = kind \in {"def", "class"},
                     !.stmts = Append(@, [k |-> kind, ind |-> l.ind, name |-> l.name,
                                          len |-> l.len, line |-> i, endline |-> i,
                                          depth |-> Len(stack2)])]

PyStep(st, l, i) ==
  LET n == Len(st.stmts) IN
  IF st.err THEN st
  ELSE IF st.inStr THEN
    CASE l.k = "dsclose" ->
           [st EXCEPT !.inStr = FALSE, !.stmts[n].endline = i]
      [] l.k \in {"dsopen", "ds1"} -> [st EXCEPT !.err = TRUE]
      [] OTHER ->
           [st EXCEPT !.stmts[n].len = @ + 1 + l.len]
  ELSE
    CASE l.k = "blank" -> st
      [] l.k \in {"def", "class", "stmt"} -> PyPlace(st, l, i, l.k)
      [] l.k = "ds1" -> PyPlace(st, l, i, "str")
      [] l.k = "dsopen" -> [PyPlace(st, l, i, "str") EXCEPT !.inStr = TRUE]
      [] l.k = "dsclose" ->
           [PyPlace(st, [l EXCEPT !.len = 0], i, "str") EXCEPT !.inStr = TRUE]
      [] OTHER -> [st EXCEPT !.err = TRUE]

RECURSIVE PyFold(_, _, _)
PyFold(st, lines, i) ==
  IF i > Len(lines) THEN st
  ELSE The({PyFold(next, lines, i + 1) : next \in {PyStep(st, lines[i], i)}})

\* ast.parse(content): the module's logical statements, or SyntaxError
ast_parse(content) ==
  The({IF st.err \/ st.inStr \/ st.hdr THEN Raised("SyntaxError")
       ELSE [body |-> st.stmts] : st \in {PyFold(PyState0, content.lines, 1)}})

\* scanner.py: _has_proper_docs(node) for the unit that statement j declares
has_proper_docs(stmts, j) ==
  /\ j < Len(stmts)
  /\ stmts[j + 1].k = "str"
  /\ stmts[j + 1].len > DocMinLen

\* last physical line of the unit that statement j declares (node.end_lineno)
end_lineno(stmts, j) ==
  LET ms == {m \in j..Len(stmts) : \A q \in (j + 1)..m : stmts[q].ind > stmts[j].ind}
      last == CHOOSE m \in ms : \A m2 \in ms : m2 <= m
  IN stmts[last].endline

\* ast.get_source_segment(content, node)
get_source_segment(content, stmts, j) ==
  SubSeq(content.lines, stmts[j].line, end_lineno(stmts, j))

\* the definitions of nesting depth d among statements j.., in source order
RECURSIVE DefsAtDepth(_, _, _)
DefsAtDepth(stmts, j, d) ==
  IF j > Len(stmts) THEN <<>>
  ELSE (IF stmts[j].depth = d /\ stmts[j].k \in {"def", "class"} THEN <<j>> ELSE <<>>)
       \o DefsAtDepth(stmts, j + 1, d)

\* ast.walk(tree): breadth-first, so the definitions of nesting depth d come,
\* in source order, before every definition of depth d + 1
RECURSIVE ast_walk(_, _)
ast_walk(stmts, d) ==
  IF \A j \in 1..Len(stmts) : stmts[j].depth < d THEN <<>>
  ELSE DefsAtDepth(stmts, 1, d) \o ast_walk(stmts, d + 1)

FileAnalysis(path, language, needs_docs, original_content, items) ==
  [path |-> path, language |-> language, needs_docs |-> needs_docs,
   original_content |-> original_content, undocumented_items |-> items]

RECURSIVE PyItems(_, _, _)
PyItems(content, stmts, order) ==
  IF order = <<>> THEN <<>>
  ELSE LET j == Head(order)
           item == [type |-> IF stmts[j].k = "def" THEN "function" ELSE "class",
                    name |-> stmts[j].name,
                    line |-> stmts[j].line,
                    code |-> get_source_segment(content, stmts, j)]
       IN (IF has_proper_docs(stmts, j) THEN <<>> ELSE <<item>>)
          \o PyItems(content, stmts, Tail(order))

PyAnalysis(content, path, tree) ==
  IF IsExc(tree) THEN tree
  ELSE The({FileAnalysis(path, "python", items # <<>>, content, items) :
            items \in {The({PyItems(content, tree.body, order) :
                            order \in {ast_walk(tree.body, 1)}})}})

parse_python(content, path) ==
  The({PyAnalysis(content, path, tree) : tree \in {ast_parse(content)}})

(***************************************************************************)
(* scanner.py: _parse_javascript, _has_jsdoc.  js_function_pattern matches *)
(* the declaration lines; preceding_code is the text before the match.     *)
(***************************************************************************)
\* preceding_code.rstrip(): drop the trailing whitespace-only lines
RECURSIVE rstrip(_)
rstrip(lines) ==
  IF lines # <<>> /\ lines[Len(lines)].k = "blank"
  THEN rstrip(SubSeq(lines, 1, Len(lines) - 1))
  ELSE lines

\* jsdoc_pattern.search(search_area), search_area being one line
jsdoc_search(l) == l.k = "jsdoc1"

has_jsdoc(preceding) ==
  LET trimmed == rstrip(preceding) IN
  IF trimmed = <<>> THEN FALSE
  ELSE jsdoc_search(trimmed[Len(trimmed)])

RECURSIVE JsItems(_, _)
JsItems(lines, i) ==
  IF i > Len(lines) THEN <<>>
  ELSE LET item == [type |-> "function", name |-> lines[i].name, line |-> i,
                    code |-> <<lines[i]>>]
       IN (IF lines[i].k = "decl" /\ ~has_jsdoc(SubSeq(lines, 1, i - 1))
           THEN <<item>> ELSE <<>>) \o JsItems(lines, i + 1)

parse_javascript(content, path, language) ==
  The({FileAnalysis(path, language, items # <<>>, content, items) :
       items \in {JsItems(content.lines, 1)}})

(***************************************************************************)
(* scanner.py: the language classifier and _parse_code                     *)
(***************************************************************************)
\* the final component of each path of the model, split at the dots
PathParts ==
  [p \in {"README.md", "a.py", "src/b.PY", "src/lib/c.js", "x.py", "x.js", "x.ts"} |->
     CASE p = "README.md" -> <<"README", "md">>
       [] p = "a.py" -> <<"a", "py">>
       [] p = "src/b.PY" -> <<"b", "PY">>
       [] p = "src/lib/c.js" -> <<"c", "js">>
       [] p = "x.py" -> <<"x", "py">>
       [] p = "x.js" -> <<"x", "js">>
       [] p = "x.ts" -> <<"x", "ts">>]

\* Path(path).suffix, written without its dot: the part after the last dot
\* of the name, when something precedes that dot and something follows it
suffix(path) ==
  LET parts == PathParts[path]
      n == Len(parts)
  IN IF n >= 2 /\ parts[n] # "" /\ ~(n = 2 /\ parts[1] = "") THEN parts[n] ELSE ""

\* str.lower() on the extensions of the model
lower(s) ==
  CASE s = "PY" -> "py"
    [] s = "JS" -> "js"
    [] s = "TS" -> "ts"
    [] OTHER -> s

supported_languages ==
  [e \in {"py", "js", "ts", "jsx", "tsx"} |->
     CASE e = "py" -> "python"
       [] e = "js" -> "javascript"
       [] e = "ts" -> "typescript"
       [] e = "jsx" -> "javascript"
       [] e = "tsx" -> "typescript"]

is_supported_file(path) == lower(suffix(path)) \in DOMAIN supported_languages

parse_code(content, path) ==
  LET ext == lower(suffix(path))
      language == IF ext \in DOMAIN supported_languages
                  THEN supported_languages[ext] ELSE "None"
  IN CASE language = "python" -> parse_python(content, path)
       [] language \in {"javascript", "typescript"} ->
            parse_javascript(content, path, language)
       [] OTHER -> FileAnalysis(path, "None", FALSE, Text(<<>>, FALSE), <<>>)

(***************************************************************************)
(* documenter.py: prompts and insertion                                    *)
(***************************************************************************)
\* a generated documentation text: the lengths of its lines (0: a blank line)
\* docs.strip(): without its leading and trailing blank lines
RECURSIVE strip(_)
strip(docs) ==
  IF docs = <<>> THEN docs
  ELSE IF Head(docs) = 0 THEN strip(Tail(docs))
  ELSE IF docs[Len(docs)] = 0 THEN strip(SubSeq(docs, 1, Len(docs) - 1))
  ELSE docs

\* lines[i] of a Python list, i counted from 0; negative i counts from the end
list_index(lines, i) ==
  LET n == Len(lines) IN
  IF 0 <= i /\ i < n THEN lines[i + 1]
  ELSE IF -n <= i /\ i < 0 THEN lines[n + i + 1]
  ELSE Raised("IndexError")

\* list_insert written as an assignment lines[i] = element: the line at the
\* position is replaced
list_insert_overwrite(lines, i, block) ==
  LET n == Len(lines)
      pos == IF i < 0 THEN (IF n + i < 0 THEN 0 ELSE n + i)
             ELSE (IF i > n THEN n ELSE i)
  IN SubSeq(lines, 1, pos) \o block \o SubSeq(lines, pos + 2, n)

\* lines.insert(i, element) followed by '\n'.join: the element's own lines
\* become lines of the text
list_insert(lines, i, block) ==
  LET n == Len(lines)
      pos == IF i < 0 THEN (IF n + i < 0 THEN 0 ELSE n + i)
             ELSE (IF i > n THEN n ELSE i)
  IN SubSeq(lines, 1, pos) \o block \o SubSeq(lines, pos + 1, n)

\* len(line) - len(line.lstrip())
leading_blanks(l) == (l.ind + l.len) - l.len

\* f'{indent}"""{docs.strip()}\n{indent}"""'
python_docstring(indent, docs) ==
  LET d == strip(docs) IN
  IF d = <<>> THEN <<DsClose(indent), DsClose(indent)>>
  ELSE <<DsOpen(indent, d[1])>> \o [i \in 1..(Len(d) - 1) |-> DsMid(d[i + 1])]
       \o <<DsClose(indent)>>

\* f'{indent}/**\n{indent} * {...}\n{indent} */'
js_docstring(indent, docs) ==
  LET d == IF strip(docs) = <<>> THEN <<0>> ELSE strip(docs) IN
  <<JsOpen(indent)>> \o [i \in 1..Len(d) |-> JsMid(indent, d[i])] \o <<JsClose(indent)>>

insert_python_docs(code, item, docs) ==
  LET lines == splitlines(code)
      insert_line == item.line - 1
      at == list_index(lines, insert_line)
  IN IF IsExc(at) THEN at
     ELSE join(list_insert(lines, insert_line + 1,
                           python_docstring(leading_blanks(at), docs)))

insert_js_docs(code, item, docs) ==
  LET lines == splitlines(code)
      insert_line == item.line - 1
      at == list_index(lines, insert_line)
  IN IF IsExc(at) THEN at
     ELSE join(list_insert(lines, insert_line,
                           js_docstring(leading_blanks(at), docs)))

insert_ts_docs(code, item, docs) == insert_js_docs(code, item, docs)

\* _build_python_prompts / _build_js_prompts / _build_ts_prompts: a dict keyed
\* by item name; a later item of the same name replaces the earlier entry
build_prompts(analysis) ==
  LET items == analysis.undocumented_items
      names == {items[i].name : i \in 1..Len(items)}
      LastOf(n) == CHOOSE i \in 1..Len(items) :
                     /\ items[i].name = n
                     /\ \A j \in 1..Len(items) : items[j].name = n => j <= i
  IN [n \in names |-> [language |-> analysis.language, code |-> items[LastOf(n)].code]]

language_handlers == {"python", "javascript", "typescript"}

insert_docs(language, code, item, docs) ==
  CASE language = "python" -> insert_python_docs(code, item, docs)
    [] language = "javascript" -> insert_js_docs(code, item, docs)
    [] language = "typescript" -> insert_ts_docs(code, item, docs)

(***************************************************************************)
(* State                                                                   *)
(***************************************************************************)
VARIABLES
  \* the repository and the cache (scanner.py, cache.py)
  sha,         \* content identity (content_file.sha) of every file
  pool,        \* CacheManager._pool
  health,      \* what the Redis server does with a command
  store,       \* the keys of the Redis server
  fallback,    \* CacheManager._fallback_cache
  clock,       \* seconds since the start
  pc,          \* scan_repository: "idle", "scanning", "done"
  stack,       \* the listings still to be iterated, innermost last
  results,     \* scan_repository's results dict
  outcome,     \* how scan_repository ended: "returned" or the exception
  last,        \* the last _analyze_file call
  seen,        \* per path, the sha and result of its previous analysis
  scans,       \* scans started
  edits,       \* content edits made
  ticks,       \* clock advances made
  \* one generate_documentation call (documenter.py)
  dAnalysis,   \* the FileAnalysis being documented
  dCode,       \* documented_code
  dIdx,        \* position of the handler's loop in undocumented_items
  dPc,         \* "start", "loop", "returned", "raised"
  dLast,       \* the last insertion made
  dRe,         \* the extractor's result on the returned content
  \* one run_documentation_workflow call (main.py)
  wf           \* its position and its locals

scanVars == <<sha, pool, health, store, fallback, clock, pc, stack, results,
              outcome, last, seen, scans, edits, ticks>>
docVars == <<dAnalysis, dCode, dIdx, dPc, dLast, dRe>>
vars == <<scanVars, docVars, wf>>

(***************************************************************************)
(* documenter.py: generate_documentation and the language handlers         *)
(***************************************************************************)
PyAlphabet ==
  {PyDef(0, "f"), PyDef(4, "m"), PyClass(0, "C"), Stmt(0), Stmt(4), Stmt(8),
   Ds1(4, 20), Blank(0)}
JsAlphabet == {JsDecl(0, "foo"), JsDecl(4, "bar"), JsDoc1(0), Stmt(0), Blank(0)}

TextsOver(alphabet) ==
  {Text(ls, TRUE) : ls \in UNION {[1..n -> alphabet] : n \in 0..MaxLines}}

\* def add(a, b):\n    return a + b\n
PyExample == Text(<<PyDef(0, "add"), Stmt(4)>>, TRUE)
\* a class with a method, followed by a top-level function
PyNested ==
  Text(<<PyClass(0, "C"), PyDef(4, "m"), Stmt(8), PyDef(0, "g"), Stmt(4)>>, TRUE)
\* a documented class with an undocumented method, then a top-level function
PyDocumentedClass ==
  Text(<<PyClass(0, "C"), Ds1(4, 20), PyDef(4, "m"), Stmt(8), PyDef(0, "g"), Stmt(4)>>,
       FALSE)
\* two classes with a method of the same name
PySameName ==
  Text(<<PyClass(0, "C"), Ds1(4, 20), PyDef(4, "m"), Stmt(8),
         PyClass(0, "D"), Ds1(4, 20), PyDef(4, "m"), Stmt(8), Stmt(8)>>, TRUE)
\* export function foo() {}\n
JsExample == Text(<<JsDecl(0, "foo")>>, TRUE)
JsTwo == Text(<<JsDecl(0, "foo"), Stmt(4), Blank(0), JsDecl(0, "bar"), Stmt(4)>>, TRUE)

PyTexts == TextsOver(PyAlphabet) \cup {PyExample, PyNested, PyDocumentedClass, PySameName}
JsTexts == TextsOver(JsAlphabet) \cup {JsExample, JsTwo}

DocAnalyses ==
  {a \in {parse_code(t, "x.py") : t \in PyTexts}
         \cup {parse_code(t, "x.js") : t \in JsTexts}
         \cup {parse_code(t, "x.ts") : t \in JsTexts} : ~IsExc(a)}

\* the texts the generation service may answer with
Responses == {<<17>>, <<5>>, <<0, 17, 9, 0>>}

DocIdle ==
  /\ dAnalysis = None
  /\ dCode = None
  /\ dIdx = 0
  /\ dPc = "off"
  /\ dLast = None
  /\ dRe = None

\* generate_documentation up to the handler's loop
GenerateDocumentation ==
  /\ dPc = "start"
  /\ dCode' = dAnalysis.original_content
  /\ dPc' = IF dAnalysis.needs_docs /\ dAnalysis.language \in language_handlers
            THEN "loop" ELSE "returned"
  /\ dIdx' = 1
  /\ UNCHANGED <<dAnalysis, dLast, dRe, scanVars, wf>>

\* the loop left after its first iteration
loop_exhausted_after_first(analysis, idx) == idx > 1

\* for item in analysis.undocumented_items: nothing is left to iterate
loop_exhausted(analysis, idx) == idx > Len(analysis.undocumented_items)

\* one iteration of the handler's loop: the response arrives, it is inserted
HandleItem ==
  /\ dPc = "loop"
  /\ ~loop_exhausted(dAnalysis, dIdx)
  /\ \E response \in Responses, item \in {dAnalysis.undocumented_items[dIdx]} :
       \E prompt \in {build_prompts(dAnalysis)[item.name]},
          new \in {insert_docs(dAnalysis.language, dCode, item, response)} :
          IF IsExc(new)
          THEN /\ dPc' = "raised"
               /\ UNCHANGED <<dCode, dIdx, dLast>>
          ELSE /\ dCode' = new
               /\ dIdx' = dIdx + 1
               /\ dLast' = [item |-> item, idx |-> dIdx, pre |-> dCode, post |-> new,
                            docs |-> response, prompt |-> prompt]
               /\ UNCHANGED dPc
  /\ UNCHANGED <<dAnalysis, dRe, scanVars, wf>>

\* _get_ai_response raises: the handler and generate_documentation raise
AiFailure ==
  /\ dPc = "loop"
  /\ ~loop_exhausted(dAnalysis, dIdx)
  /\ dPc' = "raised"
  /\ UNCHANGED <<dAnalysis, dCode, dIdx, dLast, dRe, scanVars, wf>>

\* the handler's loop is exhausted: return documented_code
HandleReturn ==
  /\ dPc = "loop"
  /\ loop_exhausted(dAnalysis, dIdx)
  /\ dPc' = "returned"
  /\ UNCHANGED <<dAnalysis, dCode, dIdx, dLast, dRe, scanVars, wf>>

\* the extractor runs on the returned content
ReExtract ==
  /\ dPc = "returned"
  /\ IsNone(dRe)
  /\ dRe' = parse_code(dCode, dAnalysis.path)
  /\ UNCHANGED <<dAnalysis, dCode, dIdx, dPc, dLast, scanVars, wf>>

(***************************************************************************)
(* The repository served by the content provider                           *)
(***************************************************************************)
RepoName == "octo/repo"
Files == {"README.md", "a.py", "src/b.PY", "src/lib/c.js"}
Shas == {"sEmpty", "sAdd", "sFoo"}
\* def add(a, b):\n    return a + b\ndef sub(a, b):\n    return a - b\n
PyTwo == Text(<<PyDef(0, "add"), Stmt(4), PyDef(0, "sub"), Stmt(4)>>, TRUE)

\* the content each identity stands for; sFoo is JavaScript, which
\* ast.parse rejects when the file is named .py
ContentOf ==
  [s \in Shas \cup {"sTwo"} |->
     CASE s = "sEmpty" -> Text(<<>>, FALSE)
       [] s = "sAdd" -> PyExample
       [] s = "sFoo" -> JsExample
       [] s = "sTwo" -> PyTwo]

FileEntry(path) == [type |-> "file", path |-> path, sha |-> sha[path]]
DirEntry(path) == [type |-> "dir", path |-> path, sha |-> ""]

\* repo.get_contents(path)
get_contents(path) ==
  CASE path = "" -> <<FileEntry("README.md"), FileEntry("a.py"), DirEntry("src")>>
    [] path = "src" -> <<FileEntry("src/b.PY"), DirEntry("src/lib")>>
    [] path = "src/lib" -> <<FileEntry("src/lib/c.js")>>

\* scanner.py: _get_file_content
get_file_content(content_file) == ContentOf[content_file.sha]

(***************************************************************************)
(* cache.py: CacheManager                                                  *)
(***************************************************************************)
\* init_redis(max_retries=3, ...)
MaxRetries == 3

dumps(value) == [pickled |-> value]
loads(data) == IF DOMAIN data = {"pickled"} THEN data.pickled
               ELSE Raised("UnpicklingError")
\* bytes under a key that pickle.loads does not accept
Garbage == [garbage |-> TRUE]

\* init_redis from its attempt-th iteration on: the pool is installed before
\* the ping; a failed ping that is not the last attempt reaches asyncio.sleep,
\* and cache.py does not import asyncio.  `attempts' counts the pings made.
RECURSIVE init_redis(_, _, _)
init_redis(attempt, max_retries, ping_ok) ==
  IF attempt >= max_retries
  THEN [pool |-> "None", outcome |-> "returned", attempts |-> attempt]
  ELSE IF ping_ok
  THEN [pool |-> "Redis", outcome |-> "returned", attempts |-> attempt + 1]
  ELSE IF attempt < max_retries - 1
  THEN [pool |-> "Redis", outcome |-> "NameError", attempts |-> attempt + 1]
  ELSE init_redis(attempt + 1, max_retries, ping_ok)

\* CacheManager.get that never asks the server and answers from the
\* in-process store
cache_get_skips_store(key) ==
  IF pool = "None" THEN None
  ELSE IF key \in DOMAIN fallback THEN fallback[key] ELSE None

\* CacheManager.get
cache_get(key) ==
  IF pool = "None" THEN None
  ELSE IF health \in {"failread", "down"}
  THEN (IF key \in DOMAIN fallback THEN fallback[key] ELSE None)
  ELSE LET data == IF key \in DOMAIN store THEN store[key].data ELSE None
       IN IF IsNone(data) THEN None ELSE loads(data)

\* CacheManager.set: the store and the fallback store after the call
cache_set(key, value, ttl) ==
  IF pool = "None" THEN [store |-> store, fallback |-> fallback, ret |-> "False"]
  ELSE IF health \in {"failwrite", "down"}
  THEN [store |-> store, fallback |-> (key :> value) @@ fallback, ret |-> "None"]
  ELSE [store |-> (key :> [data |-> dumps(value),
                           exp |-> IF ttl > 0 THEN clock + ttl ELSE -1]) @@ store,
        fallback |-> fallback, ret |-> "True"]

(***************************************************************************)
(* scanner.py: _analyze_file, scan_repository, _process_directory          *)
(***************************************************************************)
\* the cache key built from the path instead of the content identity
cache_key_by_path(repo, content_file) == <<"analysis", repo, content_file.path>>

cache_key(repo, content_file) == <<"analysis", repo, content_file.sha>>

\* _analyze_file: what it returns or raises, the cache afterwards, and
\* whether _parse_code was called
\* _analyze_file after the lookup missed (lines 71-75)
analyze_miss(key, analysis) ==
  IF IsExc(analysis)
  THEN [ret |-> analysis, parsed |-> TRUE, store |-> store, fallback |-> fallback]
  ELSE The({[ret |-> analysis, parsed |-> TRUE, store |-> written.store,
             fallback |-> written.fallback] :
            written \in {cache_set(key, analysis, AnalysisTtl)}})

analyze_file(repo, content_file) ==
  LET key == cache_key(repo, content_file)
      same == [store |-> store, fallback |-> fallback]
  IN IF ~is_supported_file(content_file.path)
     THEN [ret |-> None, parsed |-> FALSE] @@ same
     ELSE The({IF ~IsNone(cached)
               THEN [ret |-> cached, parsed |-> FALSE] @@ same
               ELSE The({analyze_miss(key, analysis) :
                         analysis \in {parse_code(get_file_content(content_file),
                                                  content_file.path)}}) :
               cached \in {cache_get(key)}})

RECURSIVE Normalise(_)
Normalise(st) ==
  IF st # <<>> /\ st[Len(st)] = <<>> THEN Normalise(SubSeq(st, 1, Len(st) - 1)) ELSE st

\* the stack once the first entry of the innermost listing is consumed
Consumed == [stack EXCEPT ![Len(stack)] = Tail(@)]

ScanIdle ==
  /\ sha = [p \in Files |-> IF p = "a.py" THEN "sAdd" ELSE "sEmpty"]
  /\ pool = "None"
  /\ health = "up"
  /\ store = <<>>
  /\ fallback = <<>>
  /\ clock = 0
  /\ pc = "idle"
  /\ stack = <<>>
  /\ results = <<>>
  /\ outcome = "none"
  /\ last = None
  /\ seen = [p \in Files |-> None]
  /\ scans = 0
  /\ edits = 0
  /\ ticks = 0

\* scan_repository up to its loop over repo.get_contents("")
StartScan ==
  /\ pc # "scanning"
  /\ scans < MaxScans
  /\ scans' = scans + 1
  /\ pc' = "scanning"
  /\ stack' = <<get_contents("")>>
  /\ results' = <<>>
  /\ outcome' = "none"
  /\ last' = None
  /\ UNCHANGED <<sha, pool, health, store, fallback, clock, seen, edits, ticks, docVars, wf>>

\* the loops reach a directory: _process_directory iterates its listing
VisitDir ==
  /\ pc = "scanning"
  /\ \E entry \in {Head(stack[Len(stack)])} :
        /\ entry.type = "dir"
        /\ \E st \in {Normalise(Append(Consumed, get_contents(entry.path)))} :
             /\ stack' = st
             /\ pc' = IF st = <<>> THEN "done" ELSE "scanning"
             /\ outcome' = IF st = <<>> THEN "returned" ELSE outcome
  /\ UNCHANGED <<sha, pool, health, store, fallback, clock, results, last, seen,
                 scans, edits, ticks, docVars, wf>>

\* the loops reach a file: _analyze_file, then results[path] = analysis
VisitFile ==
  /\ pc = "scanning"
  /\ \E entry \in {Head(stack[Len(stack)])} :
     /\ entry.type # "dir"
     /\ \E r \in {analyze_file(RepoName, entry)}, st \in {Normalise(Consumed)} :
        /\ store' = r.store
        /\ fallback' = r.fallback
        /\ last' = [path |-> entry.path, sha |-> entry.sha,
                    supported |-> is_supported_file(entry.path),
                    prev |-> seen[entry.path], ret |-> r.ret, parsed |-> r.parsed,
                    store |-> store, fallback |-> fallback, pool |-> pool,
                    health |-> health,
                    direct |-> parse_code(get_file_content(entry), entry.path)]
        /\ seen' = [seen EXCEPT ![entry.path] = [sha |-> entry.sha, ret |-> r.ret]]
        /\ IF IsExc(r.ret)
           THEN /\ pc' = "done"
                /\ outcome' = r.ret.exc
                /\ UNCHANGED <<stack, results>>
           ELSE /\ results' = IF IsNone(r.ret) THEN results
                              ELSE (entry.path :> r.ret) @@ results
                /\ stack' = st
                /\ pc' = IF st = <<>> THEN "done" ELSE "scanning"
                /\ outcome' = IF st = <<>> THEN "returned" ELSE outcome
  /\ UNCHANGED <<sha, pool, health, clock, scans, edits, ticks, docVars, wf>>

(***************************************************************************)
(* The environment, between two scans                                      *)
(***************************************************************************)
\* between two requests the locals of the finished scan_repository call are
\* gone
Forgotten ==
  /\ pc' = "idle"
  /\ stack' = <<>>
  /\ results' = <<>>
  /\ outcome' = "none"
  /\ last' = None

\* main.py lifespan: await cache.init_redis()
InitRedis ==
  /\ pc = "idle"
  /\ pool = "None"
  /\ pool' = init_redis(0, MaxRetries, health # "down").pool
  /\ UNCHANGED <<sha, health, store, fallback, clock, pc, stack, results, outcome,
                 last, seen, scans, edits, ticks, docVars, wf>>

\* a commit changes the content of one file
ModifyFile ==
  /\ pc # "scanning"
  /\ edits < MaxEdits
  /\ \E p \in Files \ {"README.md"}, s \in Shas :
       /\ s # sha[p]
       /\ sha' = [sha EXCEPT ![p] = s]
  /\ edits' = edits + 1
  /\ Forgotten
  /\ UNCHANGED <<pool, health, store, fallback, clock, seen, scans, ticks, docVars, wf>>

\* time passes; the server drops the keys whose time to live is over
Tick ==
  /\ pc # "scanning"
  /\ ticks < MaxTicks
  /\ ticks' = ticks + 1
  /\ clock' = clock + TickSeconds
  /\ store' = [k \in {k \in DOMAIN store :
                        store[k].exp = -1 \/ clock + TickSeconds < store[k].exp} |->
                 store[k]]
  /\ Forgotten
  /\ UNCHANGED <<sha, pool, health, fallback, seen, scans, edits, docVars, wf>>

\* the server starts or stops failing commands
SetHealth ==
  /\ pc # "scanning"
  /\ \E h \in {"up", "failread", "failwrite", "down"} :
       /\ h # health
       /\ health' = h
  /\ Forgotten
  /\ UNCHANGED <<sha, pool, store, fallback, clock, seen, scans, edits, ticks, docVars, wf>>

\* the bytes under a key stop being loadable (another writer, another
\* version of the pickled class)
Corrupt ==
  /\ pc # "scanning"
  /\ \E k \in DOMAIN store :
       /\ store[k].data # Garbage
       /\ store' = [store EXCEPT ![k].data = Garbage]
  /\ Forgotten
  /\ UNCHANGED <<sha, pool, health, fallback, clock, seen, scans, edits, ticks, docVars, wf>>

(***************************************************************************)
(* cache.py: a client of CacheManager.  The value it writes states when it *)
(* was written and with which ttl.                                         *)
(***************************************************************************)
CacheKeys == {"k1", "k2"}
\* scanner.py's ttl, and the default of CacheManager.set
CacheTtls == {AnalysisTtl, 3600}

\* await cache.set(key, value, ttl)
CacheSet ==
  /\ pc = "idle"
  /\ \E key \in CacheKeys, ttl \in CacheTtls :
       \E w \in {cache_set(key, [written |-> clock, ttl |-> ttl], ttl)} :
         /\ store' = w.store
         /\ fallback' = w.fallback
         /\ last' = [op |-> "set", key |-> key, ret |-> w.ret]
  /\ UNCHANGED <<sha, pool, health, clock, pc, stack, results, outcome, seen,
                 scans, edits, ticks, docVars, wf>>

\* await cache.get(key)
CacheGet ==
  /\ pc = "idle"
  /\ \E key \in CacheKeys :
       last' = [op |-> "get", key |-> key, ret |-> cache_get(key)]
  /\ UNCHANGED <<sha, pool, health, store, fallback, clock, pc, stack, results,
                 outcome, seen, scans, edits, ticks, docVars, wf>>

(***************************************************************************)
(* main.py: run_documentation_workflow, and create_documentation_pr of     *)
(* github_service.py                                                       *)
(***************************************************************************)
FlowIdle ==
  wf = [pc |-> "off", results |-> <<>>, queue |-> <<>>, path |-> "",
        changes |-> <<>>, todo |-> <<>>, upstream |-> <<>>, failed |-> ""]

\* the file paths in the order scan_repository reaches them
RECURSIVE walk(_)
walk(entries) ==
  IF entries = <<>> THEN <<>>
  ELSE (IF Head(entries).type = "dir" THEN walk(get_contents(Head(entries).path))
        ELSE <<Head(entries).path>>) \o walk(Tail(entries))

\* dict.items(): the keys in insertion order, which is the scan's order
dict_keys(d) == SelectSeq(walk(get_contents("")), LAMBDA p : p \in DOMAIN d)

\* analysis_results = await scanner.scan_repository(repo_name)
FlowScanned ==
  /\ wf.pc = "scan"
  /\ pc = "done"
  /\ wf' = IF outcome = "returned"
           THEN [wf EXCEPT !.pc = "docs", !.results = results,
                           !.queue = dict_keys(results)]
           ELSE [wf EXCEPT !.pc = "raised"]
  /\ UNCHANGED <<scanVars, docVars>>

\* for file_path, analysis in analysis_results.items(): if analysis.needs_docs:
\* documenter.generate_documentation(analysis) is called
FlowNextFile ==
  /\ wf.pc = "docs"
  /\ dPc = "off"
  /\ wf.queue # <<>>
  /\ \E path \in {Head(wf.queue)} :
       IF wf.results[path].needs_docs
       THEN /\ wf' = [wf EXCEPT !.queue = Tail(@), !.path = path]
            /\ dAnalysis' = wf.results[path]
            /\ dPc' = "start"
            /\ UNCHANGED <<dCode, dIdx, dLast, dRe>>
       ELSE /\ wf' = [wf EXCEPT !.queue = Tail(@)]
            /\ UNCHANGED docVars
  /\ UNCHANGED scanVars

\* changes[file_path] = documented_code
FlowCollect ==
  /\ wf.pc = "docs"
  /\ dPc = "returned"
  /\ wf' = [wf EXCEPT !.changes = (wf.path :> dCode) @@ @, !.path = ""]
  /\ dAnalysis' = None
  /\ dCode' = None
  /\ dIdx' = 0
  /\ dPc' = "off"
  /\ dLast' = None
  /\ UNCHANGED <<dRe, scanVars>>

\* generate_documentation raised: nothing in run_documentation_workflow
\* catches it
FlowRaise ==
  /\ wf.pc = "docs"
  /\ dPc = "raised"
  /\ wf' = [wf EXCEPT !.pc = "raised", !.failed = wf.path]
  /\ UNCHANGED <<scanVars, docVars>>

\* the background task is cancelled while it awaits the scan or a response
\* of the generation service
FlowCancel ==
  /\ \/ wf.pc = "scan" /\ pc = "scanning"
     \/ wf.pc = "docs" /\ dPc = "loop" /\ ~loop_exhausted(dAnalysis, dIdx)
  /\ wf' = [wf EXCEPT !.pc = "cancelled"]
  /\ UNCHANGED <<scanVars, docVars>>

\* if changes: create_documentation_pr(repo_name, branch_name, changes), up to
\* its loop over changes.items(); else "No documentation needed"
FlowPublish ==
  /\ wf.pc = "docs"
  /\ dPc = "off"
  /\ wf.queue = <<>>
  /\ wf' = IF wf.changes # <<>>
           THEN [wf EXCEPT !.pc = "pr", !.todo = dict_keys(wf.changes)]
           ELSE [wf EXCEPT !.pc = "done"]
  /\ UNCHANGED <<scanVars, docVars>>

\* repo.update_file(path=file_path, content=new_content, branch=branch, ...)
UpdateFile ==
  /\ wf.pc = "pr"
  /\ wf.todo # <<>>
  /\ wf' = [wf EXCEPT !.upstream = (Head(wf.todo) :> wf.changes[Head(wf.todo)]) @@ @,
                      !.todo = Tail(@)]
  /\ UNCHANGED <<scanVars, docVars>>

\* repo.create_pull(...); return {"pr_url": pr_url}
CreatePull ==
  /\ wf.pc = "pr"
  /\ wf.todo = <<>>
  /\ wf' = [wf EXCEPT !.pc = "done"]
  /\ UNCHANGED <<scanVars, docVars>>

(***************************************************************************)
(* Specifications                                                          *)
(***************************************************************************)
Init == ScanIdle /\ DocIdle /\ FlowIdle

Next ==
  \/ InitRedis
  \/ StartScan
  \/ VisitDir
  \/ VisitFile
  \/ ModifyFile
  \/ Tick
  \/ SetHealth
  \/ Corrupt

Spec == Init /\ [][Next]_vars

\* one generate_documentation call on an analysis the extractor produced
InitDoc ==
  /\ ScanIdle
  /\ dAnalysis \in DocAnalyses
  /\ dCode = None
  /\ dIdx = 0
  /\ dPc = "start"
  /\ dLast = None
  /\ dRe = None
  /\ FlowIdle

NextDoc ==
  \/ GenerateDocumentation
  \/ HandleItem
  \/ AiFailure
  \/ HandleReturn
  \/ ReExtract

SpecDoc == InitDoc /\ [][NextDoc]_vars

\* a client of the cache, the server failing and recovering, time passing
NextCache ==
  \/ InitRedis
  \/ CacheSet
  \/ CacheGet
  \/ Tick
  \/ SetHealth

SpecCache == Init /\ [][NextCache]_vars

\* one generate_documentation call on an analysis whose only item names any
\* line, inside the text or outside of it
InsLines == (0 - MaxLines - 1)..(MaxLines + 1)
InsAnalyses ==
  {FileAnalysis("x.py", "python", TRUE, t,
                <<[type |-> "function", name |-> "f", line |-> n, code |-> <<>>]>>) :
     t \in TextsOver({PyDef(0, "f"), Stmt(4), Blank(0)}), n \in InsLines}
  \cup
  {FileAnalysis("x.js", "javascript", TRUE, t,
                <<[type |-> "function", name |-> "foo", line |-> n, code |-> <<>>]>>) :
     t \in TextsOver({JsDecl(0, "foo"), Stmt(4), Blank(0)}), n \in InsLines}

InitIns ==
  /\ ScanIdle
  /\ dAnalysis \in InsAnalyses
  /\ dCode = None
  /\ dIdx = 0
  /\ dPc = "start"
  /\ dLast = None
  /\ dRe = None
  /\ FlowIdle

SpecIns == InitIns /\ [][NextDoc]_vars

\* one run_documentation_workflow call on a repository of one of the contents
\* below, starting at its call of scan_repository
FlowContents ==
  {[p \in Files |-> CASE p = "a.py" -> a [] p = "src/b.PY" -> b
                       [] p = "src/lib/c.js" -> c [] OTHER -> "sEmpty"] :
     a \in {"sAdd", "sTwo", "sFoo"}, b \in {"sEmpty", "sTwo"}, c \in {"sEmpty", "sFoo"}}

InitFlow ==
  /\ sha \in FlowContents
  /\ pool = "None"
  /\ health = "up"
  /\ store = <<>>
  /\ fallback = <<>>
  /\ clock = 0
  /\ pc = "idle"
  /\ stack = <<>>
  /\ results = <<>>
  /\ outcome = "none"
  /\ last = None
  /\ seen = [p \in Files |-> None]
  /\ scans = 0
  /\ edits = 0
  /\ ticks = 0
  /\ DocIdle
  /\ wf = [pc |-> "scan", results |-> <<>>, queue |-> <<>>, path |-> "",
           changes |-> <<>>, todo |-> <<>>, upstream |-> <<>>, failed |-> ""]

NextFlow ==
  \/ InitRedis
  \/ StartScan
  \/ VisitDir
  \/ VisitFile
  \/ FlowScanned
  \/ FlowNextFile
  \/ GenerateDocumentation
  \/ HandleItem
  \/ AiFailure
  \/ HandleReturn
  \/ FlowCollect
  \/ FlowRaise
  \/ FlowCancel
  \/ FlowPublish
  \/ UpdateFile
  \/ CreatePull

SpecFlow == InitFlow /\ [][NextFlow]_vars

(***************************************************************************)
(* Properties of the insertion engine (SpecDoc)                            *)
(***************************************************************************)
DocKinds == {"dsopen", "dsmid", "dsclose", "jsopen", "jsmid", "jsclose"}
DeclKinds == {"def", "class", "decl"}

\* C1: when a file has two or more undocumented items, the insertions are
\* applied in descending item.line order, and at the moment an item is
\* inserted its item.line still indexes that item's own declaration line in
\* the text being rewritten.
C1_DescendingInsertion ==
  ~IsNone(dLast) =>
    LET items == dAnalysis.undocumented_items
        item == dLast.item
        at == dLast.pre.lines[item.line]
    IN /\ at = dAnalysis.original_content.lines[item.line]
       /\ at.k \in DeclKinds /\ at.name = item.name
       /\ dLast.idx > 1 => items[dLast.idx - 1].line > item.line

C3_IdempotentUnderReextraction ==
  (~IsNone(dRe) /\ dAnalysis.needs_docs) =>
    /\ ~IsExc(dRe)
    /\ \A i \in 1..Len(dRe.undocumented_items) :
         \A j \in 1..Len(dAnalysis.undocumented_items) :
           dRe.undocumented_items[i].name # dAnalysis.undocumented_items[j].name

\* C4: for a Python item the docstring block starts on the line right after
\* the declaration line at item.line, indented as the first line of the
\* unit's body, and the output parses when the input did.
C4_DocstringInBody ==
  (~IsNone(dLast) /\ dAnalysis.language = "python" /\ dLast.idx = 1) =>
    LET line == dLast.item.line
        body == ast_parse(dLast.pre).body
        j == CHOOSE j \in 1..Len(body) : body[j].line = line
        post == dLast.post.lines
    IN /\ post[line] = dLast.pre.lines[line]
       /\ post[line + 1].k \in {"dsopen", "dsclose"}
       /\ post[line + 1].ind = body[j + 1].ind
       /\ ~IsExc(ast_parse(dLast.post))

(***************************************************************************)
(* Properties of the scanner and its cache (Spec)                          *)
(***************************************************************************)
\* the key of the last analysed file's content identity
LastKey == <<"analysis", RepoName, last.sha>>

\* the last _analyze_file call re-analysed a supported file analysed before
Rescan == ~IsNone(last) /\ last.supported /\ ~IsNone(last.prev)

C6_ChangedContentAlwaysMisses ==
  (Rescan /\ last.prev.sha # last.sha /\ last.ret # Raised("UnpicklingError")) =>
    last.parsed

\* C6 (amended): re-scanning a file after its sha has changed calls the
\* extractor whenever neither the server nor the in-process store holds an
\* entry for the repository and the new sha.
C6_ChangedContentMissesUnlessCached ==
  (/\ Rescan /\ last.prev.sha # last.sha
   /\ LastKey \notin DOMAIN last.store
   /\ LastKey \notin DOMAIN last.fallback) =>
    last.parsed

C6_Witness ==
  /\ Rescan /\ last.prev.sha # last.sha
  /\ LastKey \notin DOMAIN last.store
  /\ LastKey \notin DOMAIN last.fallback
  /\ last.pool = "Redis"
  /\ last.store # <<>>
  /\ last.parsed

\* C7: whatever the state of the backing store, _analyze_file of a supported
\* file that parses returns what direct computation produces, and no error
\* of the cache reaches the caller.
C7_CacheNeverChangesResult ==
  (~IsNone(last) /\ last.supported /\ ~IsExc(last.direct)) =>
    last.ret = last.direct

\* C8: every entry (p, a) of the returned map has a.path = p and a.language
\* the language of p's extension.
C8_EntryMatchesItsPath ==
  (pc = "done" /\ outcome = "returned") =>
    \A p \in DOMAIN results :
      /\ results[p].path = p
      /\ results[p].language = supported_languages[lower(suffix(p))]

\* C9: when every supported file parses, scan_repository returns a map whose
\* keys are exactly the paths with a supported extension.
C9_ExactlySupportedFiles ==
  (/\ pc = "done"
   /\ \A p \in Files :
        is_supported_file(p) => ~IsExc(parse_code(ContentOf[sha[p]], p))) =>
    /\ outcome = "returned"
    /\ DOMAIN results = {p \in Files : lower(suffix(p)) \in {"py", "js", "jsx", "ts", "tsx"}}

\* C10: a Python file that fails to parse is left out of the result, and
\* scan_repository still returns an analysis for every other supported file.
C10_ParseFailureIsFileScoped ==
  (pc = "done" /\ outcome # "UnpicklingError") =>
    /\ outcome = "returned"
    /\ DOMAIN results =
         {p \in Files : /\ is_supported_file(p)
                        /\ ~IsExc(parse_code(ContentOf[sha[p]], p))}

(***************************************************************************)
(* Properties of the documentation workflow (SpecFlow)                     *)
(***************************************************************************)
\* the number of documentation blocks in a text
DocBlocks(text) ==
  Cardinality({i \in 1..Len(text.lines) : text.lines[i].k \in {"dsopen", "jsopen"}})

\* the content holds one documentation block per undocumented item of the
\* analysis of p, and otherwise the lines of the original content
FullyDocumented(p, content) ==
  /\ DocBlocks(content) = Len(wf.results[p].undocumented_items)
  /\ SelectSeq(content.lines, LAMBDA l : l.k \notin DocKinds)
       = wf.results[p].original_content.lines

\* C11: when the generation service fails for an item of one file, the
\* workflow still ends with the documented content of every other file that
\* needs documentation published.
C11_GenerationFailureIsItemScoped ==
  (wf.pc \in {"raised", "done"} /\ wf.failed # "") =>
    \A p \in DOMAIN wf.results \ {wf.failed} :
      wf.results[p].needs_docs => p \in DOMAIN wf.upstream

\* C12: every entry of the change set, and every content written upstream,
\* holds the documentation of all undocumented items of its file; this also
\* when a generation call has failed or the workflow was cancelled after some
\* items of a file were inserted.
C12_AllOrNothingPerFile ==
  /\ \A p \in DOMAIN wf.changes : FullyDocumented(p, wf.changes[p])
  /\ \A p \in DOMAIN wf.upstream : FullyDocumented(p, wf.upstream[p])
  /\ wf.pc \in {"raised", "cancelled"} => wf.upstream = <<>>

\* a generation call fails on the second item of a file, after the first was
\* inserted and after another file's change was collected
C12_Witness ==
  /\ wf.pc = "raised"
  /\ wf.failed # ""
  /\ wf.changes # <<>>
  /\ Len(dAnalysis.undocumented_items) = 2
  /\ dIdx = 2
  /\ DocBlocks(dCode) = 1
  /\ wf.upstream = <<>>

(***************************************************************************)
(* Properties of the insertion functions on any item (SpecIns)             *)
(***************************************************************************)
\* C13: _insert_python_docs and _insert_js_docs return rewritten content only
\* for an item whose line lies in 1..N, N the number of lines of the text
\* being rewritten; for every other line, <= 0 included, they report an error.
C13_OutOfRangeLineReported ==
  ~IsNone(dLast) => dLast.item.line \in 1..Len(dLast.pre.lines)

(***************************************************************************)
(* Properties of the extractors, on the analyses of SpecDoc                *)
(***************************************************************************)
\* C14: the undocumented_items of a FileAnalysis are in ascending line order,
\* and the handler issues its generation requests in that order, whatever
\* the nesting of the Python definitions.
C14_ItemsInSourceOrder ==
  LET items == dAnalysis.undocumented_items IN
  /\ dPc # "start" =>
       \A i, j \in 1..Len(items) : i < j => items[i].line < items[j].line
  /\ ~IsNone(dLast) =>
       \A i \in 1..(dLast.idx - 1) : items[i].line < dLast.item.line

\* the first line of the run of non-blank lines that ends right before line i
RECURSIVE RunStart(_, _)
RunStart(lines, i) ==
  IF i > 1 /\ lines[i - 1].k # "blank" THEN RunStart(lines, i - 1) ELSE i

\* the run of non-blank lines directly preceding line i holds a /** ... */
\* comment, on one line or opened and closed on two lines of the run
RunHasJsDoc(lines, i) ==
  LET run == RunStart(lines, i)..(i - 1) IN
  \/ \E a \in run : lines[a].k = "jsdoc1"
  \/ \E a, b \in run : a < b /\ lines[a].k = "jsopen" /\ lines[b].k = "jsclose"

\* the extractor reported the declaration at line i as undocumented
Reported(analysis, i) ==
  \E n \in 1..Len(analysis.undocumented_items) : analysis.undocumented_items[n].line = i

\* C15: the JavaScript/TypeScript extractor reports a declaration as
\* undocumented iff the run of non-blank lines directly preceding it holds no
\* /** ... */ comment: a comment of several lines right above counts as
\* documentation, a comment separated by a blank line does not.
C15_JsDocInPrecedingRun ==
  (~IsNone(dRe) /\ dAnalysis.language \in {"javascript", "typescript"}) =>
    \A i \in 1..Len(dCode.lines) :
      dCode.lines[i].k = "decl" =>
        (Reported(dRe, i) <=> ~RunHasJsDoc(dCode.lines, i))

(***************************************************************************)
(* Properties of the cache (SpecCache)                                     *)
(***************************************************************************)
\* C16: every value that cache.get(key) returns was written by a
\* cache.set(key, value, ttl) less than ttl seconds before the read, whether
\* the server or the in-process fallback store serves it.
C16_ReadsAreTtlBounded ==
  (~IsNone(last) /\ last.op = "get" /\ ~IsNone(last.ret)) =>
    clock - last.ret.written < last.ret.ttl

\* C17: when every ping fails with a Redis error, init_redis makes exactly
\* max_retries attempts and returns normally, and the pool is None afterwards.
C17_InitRedisGivesUp ==
  [][(InitRedis /\ health = "down") =>
       /\ init_redis(0, MaxRetries, FALSE) =
            [pool |-> "None", outcome |-> "returned", attempts |-> MaxRetries]
       /\ pool' = "None"]_vars

\* C18: the generation request issued for an item is built from that item's
\* own code, also when another item of the file has the same name.
C18_PromptFromOwnCode ==
  ~IsNone(dLast) => dLast.prompt.code = dLast.item.code

====
